---------------------------- MODULE Spec2Model ----------------------------
(***************************************************************************)
(* Media timing and format introspection engine of sticker-convert         *)
(* (utils/media/codec_info.py).  The engine is stateless: every query is a *)
(* function of the file it is given.  The state, call, is the tuple of the *)
(* last query that ran (op), the input it was given (arg), what it         *)
(* produced (ret) and the set of operating-system resources (file handle   *)
(* f, memory mapping mm) that the chunked-raster strategy has acquired and *)
(* not released (held).  Every action is one complete query, started from  *)
(* the idle engine, and queries do not influence one another.  The job     *)
(* pipeline (job.py, utils/callback.py) that drives the conversion is      *)
(* modelled beside it with the variables opt to done and the               *)
(* specification JobSpec; the engine leaves those variables alone and the  *)
(* pipeline leaves call alone.                                             *)
(*                                                                         *)
(* Numbers.  Python ints are TLA+ integers.  Fraction values and the float *)
(* values the code computes by division are modelled as exact rationals    *)
(* <<numerator, denominator>> in lowest terms with a positive denominator. *)
(* Per-frame duration samples handed to durations_gcd keep their Python    *)
(* type (int or float) and their value in units of 1/Scale ms, so that the *)
(* decimal digits str() shows are the digits of the model value.           *)
(***************************************************************************)
EXTENDS Integers, Sequences, FiniteSets

VARIABLES call, opt, main, work_queue, results_queue, cb_queue, processes,
          threads, cb_return, is_cancel_job, added, done

vars ==
    <<call, opt, main, work_queue, results_queue, cb_queue, processes,
      threads, cb_return, is_cancel_job, added, done>>

\* the four components of the state
op == call[1]
arg == call[2]
ret == call[3]
held == call[4]

----------------------------------------------------------------------------
(* Bounds of the model                                                     *)

MaxNum == 3
MaxDen == 2
MaxLen == 3
MaxChunks == 3
MaxUniform == 5
MaxDecoded == 12
MaxFiles == 2
MaxProcesses == 2

----------------------------------------------------------------------------
(* Integer helpers: math.gcd, abs, lcm                                     *)

Abs(n) == IF n < 0 THEN -n ELSE n

RECURSIVE Euclid(_, _)
Euclid(a, b) == IF b = 0 THEN a ELSE Euclid(b, a % b)

\* math.gcd(a, b): never negative, gcd(0, 0) = 0
gcd(a, b) == Euclid(Abs(a), Abs(b))

\* math.gcd(*args): gcd() = 0, gcd(a) = abs(a)
RECURSIVE gcdAll(_)
gcdAll(s) == IF s = <<>> THEN 0 ELSE gcd(Head(s), gcdAll(Tail(s)))

lcm(a, b) == Abs(a * b) \div gcd(a, b)

----------------------------------------------------------------------------
(* fractions.Fraction: the constructor reduces to lowest terms and moves   *)
(* the sign to the numerator; a zero denominator raises ZeroDivisionError, *)
(* modelled by the value ZeroDiv.                                          *)

ZeroDiv == <<0, 0>>

Fraction(n, d) ==
    IF d = 0 THEN ZeroDiv
    ELSE LET g == gcd(n, d)
             s == IF d < 0 THEN -1 ELSE 1
         IN  <<s * (n \div g), s * (d \div g)>>

numerator(x) == x[1]
denominator(x) == x[2]

\* x * y and x / y, cancelling across before multiplying
RatMul(x, y) ==
    IF x = ZeroDiv \/ y = ZeroDiv THEN ZeroDiv
    ELSE LET g1 == gcd(x[1], y[2])
             g2 == gcd(y[1], x[2])
             h1 == IF g1 = 0 THEN 1 ELSE g1
             h2 == IF g2 = 0 THEN 1 ELSE g2
         IN  Fraction((x[1] \div h1) * (y[1] \div h2),
                      (x[2] \div h2) * (y[2] \div h1))

RatDiv(x, y) ==
    IF x = ZeroDiv \/ y = ZeroDiv \/ y[1] = 0 THEN ZeroDiv
    ELSE RatMul(x, Fraction(y[2], y[1]))

\* x + y over the least common denominator
RatAdd(x, y) ==
    IF x = ZeroDiv \/ y = ZeroDiv THEN ZeroDiv
    ELSE LET l == (x[2] \div gcd(x[2], y[2])) * y[2]
         IN  Fraction(x[1] * (l \div x[2]) + y[1] * (l \div y[2]), l)

RatInt(n) == <<n, 1>>

RatLess(x, y) == x[1] * y[2] < y[1] * x[2]

RatLeq(x, y) == x[1] * y[2] <= y[1] * x[2]

\* int(x): truncation towards zero
RatTrunc(x) == IF x[1] >= 0 THEN x[1] \div x[2] ELSE -((-x[1]) \div x[2])

\* rounding(value): Decimal(value).quantize(0, ROUND_HALF_UP), ties away
\* from zero
RoundHalfUpNat(n, d) == IF 2 * (n % d) >= d THEN (n \div d) + 1 ELSE n \div d

rounding(x) ==
    IF x[1] >= 0 THEN RoundHalfUpNat(x[1], x[2])
    ELSE -RoundHalfUpNat(-x[1], x[2])

----------------------------------------------------------------------------
(* Rational Duration Algebra                                               *)

fraction_gcd_denomSlip(x, y) ==
    LET a == numerator(x)
        b == denominator(x)
        c == numerator(y)
        d == denominator(y)
    IN  Fraction(gcd(a, c), b)

fraction_gcd(x, y) ==
    LET a == numerator(x)
        b == denominator(x)
        c == numerator(y)
        d == denominator(y)
    IN  Fraction(gcd(a, c), lcm(b, d))

RECURSIVE FoldGcd(_, _)
FoldGcd(acc, rest) ==
    IF rest = <<>> THEN acc
    ELSE FoldGcd(fraction_gcd(acc, Head(rest)), Tail(rest))

\* pops the first fraction and folds fraction_gcd over the others, left to
\* right
fractions_gcd(fractions) == FoldGcd(Head(fractions), Tail(fractions))

(* A duration sample is [isFloat, w, f, e]: its Python type, its whole     *)
(* part, its decimal part in units of 1/Scale ms and a power of ten.  When *)
(* e = 0, str() of a float sample shows the whole part, a point and the    *)
(* decimal digits of f.  A float below 0.0001 or from 10^16 on is shown by *)
(* str() in exponent notation: SciSample(w, f, e) is the float w.f * 10^e  *)
(* whose str() is the digit w, then a point and the digits of f without    *)
(* their trailing zeros when f is not zero, then the exponent.  The        *)
(* arithmetic on samples below is that of the samples with e = 0, the only *)
(* ones the strategies hand to durations_gcd in this model.                *)

Scale == 10 ^ 6

IntSample(n) == [isFloat |-> FALSE, w |-> n, f |-> 0, e |-> 0]
FloatSample(w, f) == [isFloat |-> TRUE, w |-> w, f |-> f, e |-> 0]
SciSample(w, f, e) == [isFloat |-> TRUE, w |-> w, f |-> f, e |-> e]

\* truth value of a sample: zero is false
Truthy(s) == s.w # 0 \/ s.f # 0

\* the sample as an exact rational
SampleValue(s) == IF s.f = 0 THEN <<s.w, 1>> ELSE Fraction(s.w * Scale + s.f, Scale)

\* i * x for a sample i and an int x: an int stays an int, a float a float
SampleTimes(s, x) ==
    [isFloat |-> s.isFloat,
     w |-> s.w * x + ((s.f * x) \div Scale),
     f |-> (s.f * x) % Scale,
     e |-> s.e]

\* a <= b by value
SampleLeq(a, b) == a.w < b.w \/ (a.w = b.w /\ a.f <= b.f)

\* whether str(value) holds a point, so that split(".")[1] exists: a float
\* in exponent notation with a whole mantissa (1e-07, 1e+16) has none
HasPoint(value) == value.e = 0 \/ value.f # 0

\* the number of decimal digits str() shows of the mantissa of a float in
\* exponent notation: the Scale digits of f without the trailing zeros
RECURSIVE ShownDigits(_, _)
ShownDigits(f, n) ==
    IF f = 0 \/ n = 0 THEN 0
    ELSE IF f % 10 = 0 THEN ShownDigits(f \div 10, n - 1)
    ELSE n

\* five characters that are not all digits
NotDigits == -1

\* str(value).split(".")[1][:5].ljust(5, "0"), as the number the five
\* digits spell; in exponent notation the text after the point goes on
\* with the exponent ("5e-07"), which is among the five characters unless
\* five digits come first
get_five_dec_place(value) ==
    IF value.e = 0 \/ ShownDigits(value.f, 6) >= 5
    THEN value.f \div 10
    ELSE NotDigits

\* the value likely_int returns when str(value) holds a point
likely_int(value) ==
    IF ~value.isFloat THEN TRUE
    ELSE get_five_dec_place(value) \in {99999, 0}

\* int(rounding(i)): half up on the decimal part
RoundSample(s) == IF 2 * s.f >= Scale THEN s.w + 1 ELSE s.w

\* the denominators that can produce a recurring decimal, in probing order
Denominators == <<3, 6, 7, 9, 11, 13>>

\* min(durations), by value
MinSample(durations) ==
    durations[CHOOSE k \in 1..Len(durations) :
                  /\ \A j \in 1..Len(durations) :
                         SampleLeq(durations[k], durations[j])
                  /\ \A j \in 1..(k - 1) :
                         ~SampleLeq(durations[j], durations[k])]

\* the for loop over the denominators, from position k on, with its else
RECURSIVE ProbeDenominators(_, _)
ProbeDenominators(durations, k) ==
    IF k > Len(Denominators) THEN SampleValue(MinSample(durations))
    ELSE LET x == Denominators[k]
         IN  IF \A i \in 1..Len(durations) :
                    likely_int(SampleTimes(durations[i], x))
             THEN Fraction(gcdAll([i \in 1..Len(durations) |->
                                     RoundSample(SampleTimes(durations[i], x))]),
                           x)
             ELSE ProbeDenominators(durations, k + 1)

durations_gcd_minSlip(durations) ==
    IF durations = <<>> THEN Fraction(0, 1)
    ELSE SampleValue(MinSample(durations))

\* any(i for i in durations if isinstance(i, float)) is true when some
\* float sample is non-zero; all(i for i in durations if likely_int(i)) is
\* true when no sample that passes likely_int is zero.
durations_gcd(durations) ==
    IF \E i \in 1..Len(durations) :
           durations[i].isFloat /\ Truthy(durations[i])
    THEN IF \A i \in 1..Len(durations) :
                likely_int(durations[i]) => Truthy(durations[i])
         THEN Fraction(gcdAll([i \in 1..Len(durations) |->
                                 RoundSample(durations[i])]), 1)
         ELSE ProbeDenominators(durations, 1)
    ELSE Fraction(gcdAll([i \in 1..Len(durations) |->
                            durations[i].w]), 1)

----------------------------------------------------------------------------
(* Results of a query: the returned values, or the exception that leaves   *)
(* the query.  fps and duration are rationals, frames is an int.           *)

Raise(e) == [exc |-> e]

Timing(fps, frames, duration) ==
    [exc |-> "none", fps |-> fps, frames |-> frames, duration |-> duration]

Returns(v) == [exc |-> "none", value |-> v]

\* a call of likely_int as the caller sees it: an int returns before
\* str() is taken; for a float, split(".")[1] raises IndexError when
\* str(value) holds no point
likely_int_call(value) ==
    IF value.isFloat /\ ~HasPoint(value) THEN Raise("IndexError")
    ELSE Returns(likely_int(value))

----------------------------------------------------------------------------
(* A file is a record: isPath tells a Path from a byte buffer, ext is the   *)
(* lower-cased suffix of the path, bytes is the content, and pil, av and   *)
(* lottie are what the image library, the container library and the vector *)
(* library show of the content.                                            *)
(*                                                                         *)
(* Chunked raster strategy (.webp).  mm below is the mapped file;          *)
(* positions are counted from 0 as in the code.                            *)

Marker == <<65, 78, 77, 70>>

Min(S) == CHOOSE x \in S : \A y \in S : x <= y

\* mm.find(b"ANMF") with the search starting at the current position pos
Find(mm, pos) ==
    LET hits == {i \in pos..(Len(mm) - Len(Marker)) :
                    SubSeq(mm, i + 1, i + Len(Marker)) = Marker}
    IN  IF hits = {} THEN -1 ELSE Min(hits)

\* mm.read(4) at position pos: the bytes left, four at most
Read4(mm, pos) ==
    SubSeq(mm, pos + 1, IF pos + 4 <= Len(mm) THEN pos + 4 ELSE Len(mm))

\* int(b) & 0b11111100 for a byte b
MaskFlags(b) == b - (b % 4)

\* bytes(n) for an int n: n zero bytes
ZeroBytes(n) == [i \in 1..n |-> 0]

\* int.from_bytes(bs, "little")
RECURSIVE FromLittle(_)
FromLittle(bs) ==
    IF \A i \in 1..Len(bs) : bs[i] = 0 THEN 0
    ELSE Head(bs) + 256 * FromLittle(Tail(bs))

DecodeDuration_unmasked(frame_duration_32) == FromLittle(frame_duration_32)

\* lines 284-287: all bytes but the last, followed by bytes(last & mask)
DecodeDuration(frame_duration_32) ==
    LET last == frame_duration_32[Len(frame_duration_32)]
        frame_duration_bytes ==
            SubSeq(frame_duration_32, 1, Len(frame_duration_32) - 1)
                \o ZeroBytes(MaskFlags(last))
    IN  FromLittle(frame_duration_bytes)

InSeq(x, s) == \E i \in 1..Len(s) : s[i] = x

\* the while loop of lines 278-291 from the state st =
\* [pos, frames, total_duration, durations, exc]
RECURSIVE ScanChunks(_, _)
ScanChunks(mm, st) ==
    LET anmf_pos == Find(mm, st.pos)
    IN  IF anmf_pos = -1 THEN st
        ELSE IF anmf_pos + 20 > Len(mm)
        THEN [st EXCEPT !.exc = "ValueError"]
        ELSE LET frame_duration_32 == Read4(mm, anmf_pos + 20)
             IN  IF frame_duration_32 = <<>>
                 THEN [st EXCEPT !.exc = "IndexError"]
                 ELSE LET frame_duration == DecodeDuration(frame_duration_32)
                      IN  ScanChunks(mm,
                            [pos |-> anmf_pos + 20 + Len(frame_duration_32),
                             frames |-> st.frames + 1,
                             total_duration |-> st.total_duration + frame_duration,
                             durations |->
                                 IF ~InSeq(frame_duration, st.durations)
                                    /\ frame_duration # 0
                                 THEN Append(st.durations, frame_duration)
                                 ELSE st.durations,
                             exc |-> "none"])

WebpFps_perMs(frames, total_duration, durations) ==
    IF Len(durations) = 1
    THEN RatDiv(RatInt(frames), RatInt(total_duration))
    ELSE LET duration_gcd ==
                 durations_gcd([i \in 1..Len(durations) |->
                                   IntSample(durations[i])])
             frames_apparent == RatDiv(RatInt(total_duration), duration_gcd)
         IN  RatDiv(frames_apparent, RatInt(total_duration))

\* lines 296-301
WebpFps(frames, total_duration, durations) ==
    IF Len(durations) = 1
    THEN RatMul(RatDiv(RatInt(frames), RatInt(total_duration)), RatInt(1000))
    ELSE LET duration_gcd ==
                 durations_gcd([i \in 1..Len(durations) |->
                                   IntSample(durations[i])])
             frames_apparent == RatDiv(RatInt(total_duration), duration_gcd)
         IN  RatMul(RatDiv(frames_apparent, RatInt(total_duration)),
                    RatInt(1000))

_get_file_fps_frames_duration_webp(file) ==
    IF ~file.isPath THEN Raise("UnsupportedOperation")
    ELSE IF file.bytes = <<>> THEN Raise("ValueError")
    ELSE LET st == ScanChunks(file.bytes,
                       [pos |-> 0, frames |-> 0, total_duration |-> 0,
                        durations |-> <<>>, exc |-> "none"])
         IN  IF st.exc # "none" THEN Raise(st.exc)
             ELSE IF st.frames <= 1 THEN Timing(RatInt(0), 1, RatInt(0))
             ELSE LET fps == WebpFps(st.frames, st.total_duration, st.durations)
                  IN  IF fps = ZeroDiv THEN Raise("ZeroDivisionError")
                      ELSE Timing(fps, st.frames, RatInt(st.total_duration))

WebpHeld_closeAtEnd(file) ==
    LET opened == {"f"}
        mapped == IF file.isPath /\ file.bytes # <<>>
                  THEN opened \cup {"mm"}
                  ELSE opened
    IN  IF _get_file_fps_frames_duration_webp(file).exc
               \in {"UnsupportedOperation", "ValueError", "IndexError"}
        THEN mapped
        ELSE {}

\* the resources still held when the query is left, by return or by
\* exception.  _open_f gives a handle f for a Path and for bytes; mmap.mmap
\* gives the mapping mm unless f has no file descriptor or the file is
\* empty, and then the loop does not run.  The with statement of line 277
\* releases mm and the one of line 276 closes f, however their block is
\* left.
WebpHeld(file) ==
    LET opened == {"f"}
        mapped == IF file.isPath /\ file.bytes # <<>>
                  THEN opened \cup {"mm"}
                  ELSE opened
        afterMap == mapped \ {"mm"}
        afterOpen == afterMap \ {"f"}
    IN  afterOpen

----------------------------------------------------------------------------
(* Generic animated-raster strategy (.gif, .png, .apng).  file.pil tells   *)
(* whether the library identifies the image (opens), whether the image     *)
(* object has n_frames, and for each frame the duration entry of im.info,  *)
(* which may be missing.  Image.open takes a byte buffer for a file name   *)
(* and fails to open it.                                                   *)

NoDuration == [has |-> FALSE, d |-> IntSample(0)]
Duration(s) == [has |-> TRUE, d |-> s]

\* im.info.get("duration", 1000)
InfoDuration(entry) == IF entry.has THEN entry.d ELSE IntSample(1000)

\* x == y on samples: by value, whatever the types
SameValue(a, b) == a.w = b.w /\ a.f = b.f

\* the for loop of lines 245-250 over the frames from i on, on the state
\* st = [total_duration, durations]
RECURSIVE SeekFrames(_, _, _)
SeekFrames(info, i, st) ==
    IF i > Len(info) THEN st
    ELSE LET frame_duration == InfoDuration(info[i])
         IN  SeekFrames(info, i + 1,
                [total_duration |->
                     RatAdd(st.total_duration, SampleValue(frame_duration)),
                 durations |->
                     IF (\A k \in 1..Len(st.durations) :
                            ~SameValue(st.durations[k], frame_duration))
                        /\ Truthy(frame_duration)
                     THEN Append(st.durations, frame_duration)
                     ELSE st.durations])

\* lines 251-258
PillowFps(frames, total_duration, durations) ==
    IF frames = 0 \/ total_duration = RatInt(0) THEN RatInt(0)
    ELSE IF Len(durations) = 1
    THEN RatMul(RatDiv(RatInt(frames), total_duration), RatInt(1000))
    ELSE LET duration_gcd == durations_gcd(durations)
             frames_apparent == RatDiv(total_duration, duration_gcd)
         IN  RatMul(RatDiv(frames_apparent, total_duration), RatInt(1000))

_get_file_fps_frames_duration_pillow(file, frames_only) ==
    IF ~file.isPath THEN Raise("OSError")
    ELSE IF ~file.pil.opens THEN Raise("UnidentifiedImageError")
    ELSE IF ~file.pil.has_n_frames THEN Timing(RatInt(0), 1, RatInt(0))
    ELSE LET frames == Len(file.pil.info)
         IN  IF frames_only THEN Timing(RatInt(0), frames, RatInt(1))
             ELSE LET st == SeekFrames(file.pil.info, 1,
                                [total_duration |-> RatInt(0),
                                 durations |-> <<>>])
                      fps == PillowFps(frames, st.total_duration, st.durations)
                  IN  IF fps = ZeroDiv THEN Raise("ZeroDivisionError")
                      ELSE Timing(fps, frames, st.total_duration)

----------------------------------------------------------------------------
(* Vector-animation strategy (.tgs).  file.lottie is what the vector       *)
(* library reads from the decompressed document.                           *)

_get_file_fps_frames_tgs(file) ==
    IF ~file.lottie.valid THEN Raise("BadGzipFile")
    ELSE [exc |-> "none", fps |-> file.lottie.framerate,
          frames |-> file.lottie.totalframe]

\* lines 184-197
_get_file_fps_tgs(file) ==
    IF ~file.lottie.valid THEN Raise("BadGzipFile")
    ELSE Returns(RatInt(file.lottie.framerate))

_get_file_frames_tgs(file) ==
    IF ~file.lottie.valid THEN Raise("BadGzipFile")
    ELSE Returns(file.lottie.totalframe)

----------------------------------------------------------------------------
(* Decode-fallback strategy.  file.av tells whether the container opens,   *)
(* whether it has a video stream, container.duration in microseconds (0    *)
(* when missing), stream.frames, the pts of the frames the decoder yields  *)
(* and their time base.  frames_to_iterate = NoBound stands for None.      *)

NoBound == -1

FramesDuration(frames, duration) ==
    [exc |-> "none", frames |-> frames, duration |-> duration]

\* the for loop of lines 336-339 over enumerate(container.decode(stream)),
\* from the frame of index i on; st = [frame_count, last_frame], last_frame
\* being the position in pts of the last frame kept, 0 for None
RECURSIVE DecodeFrames(_, _, _, _)
DecodeFrames(pts, frames_to_iterate, i, st) ==
    IF i >= Len(pts) THEN st
    ELSE IF frames_to_iterate # NoBound /\ i = frames_to_iterate
    THEN [st EXCEPT !.frame_count = i]
    ELSE DecodeFrames(pts, frames_to_iterate, i + 1,
                      [frame_count |-> i, last_frame |-> i + 1])

_get_file_frames_duration_av(file, frames_to_iterate, frames_only) ==
    IF ~file.av.opens THEN Raise("InvalidDataError")
    ELSE IF ~file.av.video THEN Raise("IndexError")
    ELSE LET duration_metadata ==
                 IF file.av.duration # 0
                 THEN rounding(Fraction(file.av.duration, 1000))
                 ELSE 0
             st == DecodeFrames(file.av.pts, frames_to_iterate, 0,
                                [frame_count |-> 0, last_frame |-> 0])
             frame_count == st.frame_count
         IN  IF frames_only /\ file.av.frames > 1
             THEN FramesDuration(file.av.frames, duration_metadata)
             ELSE IF st.last_frame = 0 THEN FramesDuration(0, 0)
             ELSE IF frame_count <= 1 \/ duration_metadata # 0
             THEN FramesDuration(frame_count, duration_metadata)
             ELSE LET time_base_ms ==
                          RatMul(Fraction(file.av.time_base[1],
                                          file.av.time_base[2]), RatInt(1000))
                      duration_n_minus_one ==
                          RatMul(RatInt(file.av.pts[st.last_frame]), time_base_ms)
                      ms_per_frame ==
                          RatDiv(duration_n_minus_one, RatInt(frame_count - 1))
                      duration == RatMul(RatInt(frame_count), ms_per_frame)
                  IN  FramesDuration(frame_count, rounding(duration))

----------------------------------------------------------------------------
(* Introspection facade.  file_ext = NoExt stands for None.                *)

NoExt == ""

get_file_ext(file) == file.ext

\* lines 87-88: the extension the dispatch uses
DispatchExt(file, file_ext) ==
    IF file_ext = NoExt /\ file.isPath THEN get_file_ext(file) ELSE file_ext

\* the resources a timing query leaves held: only the chunked-raster
\* strategy acquires any
Held(file, file_ext) ==
    IF DispatchExt(file, file_ext) = ".webp" THEN WebpHeld(file) ELSE {}

get_file_fps_frames_duration_perSecond(file, file_ext) ==
    LET ext == DispatchExt(file, file_ext)
    IN  IF ext = ".tgs"
        THEN LET r == _get_file_fps_frames_tgs(file)
             IN  IF r.exc # "none" THEN r
                 ELSE Timing(RatInt(r.fps), r.frames,
                        RatInt(IF r.fps > 0
                               THEN RatTrunc(RatDiv(RatInt(r.frames),
                                                    RatInt(r.fps)))
                               ELSE 0))
        ELSE IF ext = ".webp" THEN _get_file_fps_frames_duration_webp(file)
        ELSE IF ext \in {".gif", ".apng", ".png"}
        THEN _get_file_fps_frames_duration_pillow(file, FALSE)
        ELSE LET r == _get_file_frames_duration_av(file, NoBound, FALSE)
             IN  IF r.exc # "none" THEN r
                 ELSE Timing(IF r.duration > 0
                             THEN RatDiv(RatInt(r.frames), RatInt(r.duration))
                             ELSE RatInt(0),
                             r.frames, RatInt(r.duration))

get_file_fps_frames_duration(file, file_ext) ==
    LET ext == DispatchExt(file, file_ext)
    IN  IF ext = ".tgs"
        THEN LET r == _get_file_fps_frames_tgs(file)
             IN  IF r.exc # "none" THEN r
                 ELSE Timing(RatInt(r.fps), r.frames,
                        RatInt(IF r.fps > 0
                               THEN RatTrunc(RatMul(RatDiv(RatInt(r.frames),
                                                           RatInt(r.fps)),
                                                    RatInt(1000)))
                               ELSE 0))
        ELSE IF ext = ".webp" THEN _get_file_fps_frames_duration_webp(file)
        ELSE IF ext \in {".gif", ".apng", ".png"}
        THEN _get_file_fps_frames_duration_pillow(file, FALSE)
        ELSE LET r == _get_file_frames_duration_av(file, NoBound, FALSE)
             IN  IF r.exc # "none" THEN r
                 ELSE Timing(IF r.duration > 0
                             THEN RatMul(RatDiv(RatInt(r.frames),
                                                RatInt(r.duration)),
                                         RatInt(1000))
                             ELSE RatInt(0),
                             r.frames, RatInt(r.duration))

\* lines 110-130: the decode fallback is asked for 10 frames at most
get_file_fps(file, file_ext) ==
    LET ext == DispatchExt(file, file_ext)
    IN  IF ext = ".tgs" THEN _get_file_fps_tgs(file)
        ELSE IF ext = ".webp"
        THEN LET r == _get_file_fps_frames_duration_webp(file)
             IN  IF r.exc # "none" THEN r ELSE Returns(r.fps)
        ELSE IF ext \in {".gif", ".apng", ".png"}
        THEN LET r == _get_file_fps_frames_duration_pillow(file, FALSE)
             IN  IF r.exc # "none" THEN r ELSE Returns(r.fps)
        ELSE LET r == _get_file_frames_duration_av(file, 10, FALSE)
             IN  IF r.exc # "none" THEN r
                 ELSE Returns(IF r.duration > 0
                              THEN RatMul(RatDiv(RatInt(r.frames),
                                                 RatInt(r.duration)),
                                          RatInt(1000))
                              ELSE RatInt(0))

\* the queries that dispatch on the extension
Queries ==
    {"get_file_fps_frames_duration", "get_file_fps", "get_file_frames",
     "get_file_duration", "get_file_res"}

\* the branch the if-chain of a query takes for the extension ext: the
\* vector library, the chunk scan, the image library or the container
\* library (lines 90-101, 115-124, 142-153, 169-180, 407-433)
SelectedStrategy(query, ext) ==
    CASE query \in {"get_file_fps_frames_duration", "get_file_fps",
                    "get_file_duration"} ->
             IF ext = ".tgs" THEN "vector"
             ELSE IF ext = ".webp" THEN "chunked"
             ELSE IF ext \in {".gif", ".apng", ".png"} THEN "generic"
             ELSE "decode"
      [] query = "get_file_frames" ->
             IF ext = ".tgs" THEN "vector"
             ELSE IF ext \in {".gif", ".webp", ".png", ".apng"} THEN "generic"
             ELSE "decode"
      [] query = "get_file_res" ->
             IF ext = ".tgs" THEN "vector"
             ELSE IF ext \in {".webp", ".png", ".apng"} THEN "generic"
             ELSE "decode"

\* lines 132-157; check_anim bounds the decoding to 2 frames
get_file_frames(file, file_ext, check_anim) ==
    LET ext == DispatchExt(file, file_ext)
    IN  IF ext = ".tgs" THEN _get_file_frames_tgs(file)
        ELSE IF ext \in {".gif", ".webp", ".png", ".apng"}
        THEN LET r == _get_file_fps_frames_duration_pillow(file, TRUE)
             IN  IF r.exc # "none" THEN r ELSE Returns(r.frames)
        ELSE LET frames_to_iterate == IF check_anim THEN 2 ELSE NoBound
                 r == _get_file_frames_duration_av(file, frames_to_iterate,
                                                   TRUE)
             IN  IF r.exc # "none" THEN r ELSE Returns(r.frames)

is_anim(file) ==
    LET r == get_file_frames(file, NoExt, TRUE)
    IN  IF r.exc # "none" THEN r ELSE Returns(r.value > 1)

\* str.lower() on the format and codec names of the inputs
Lower(name) ==
    CASE name = "WEBP" -> "webp"
      [] name = "GIF" -> "gif"
      [] name = "PNG" -> "png"
      [] name = "H264" -> "h264"
      [] OTHER -> name

Codec(name) == [exc |-> "none", codec |-> name]

get_file_codec(file, file_ext) ==
    LET ext == DispatchExt(file, file_ext)
    IN  IF ext \in {".tgs", ".lottie", ".json"}
        THEN Codec(CASE ext = ".tgs" -> "tgs"
                     [] ext = ".lottie" -> "lottie"
                     [] OTHER -> "json")
        ELSE IF ~file.isPath THEN Raise("OSError")
        ELSE IF file.pil.opens /\ file.pil.format = "PNG"
        THEN Codec(IF file.pil.is_animated THEN "apng" ELSE "png")
        ELSE IF file.pil.opens THEN Codec(Lower(file.pil.format))
        ELSE IF ~file.av.opens THEN Codec("")
        ELSE IF ~file.av.video THEN Raise("IndexError")
        ELSE Codec(Lower(file.av.codec))

Res(size) == [exc |-> "none", res |-> size]

get_file_res(file, file_ext) ==
    LET ext == DispatchExt(file, file_ext)
    IN  IF ext = ".tgs"
        THEN IF ~file.lottie.valid THEN Raise("BadGzipFile")
             ELSE Res(file.lottie.size)
        ELSE IF ext \in {".webp", ".png", ".apng"}
        THEN IF ~file.isPath THEN Raise("OSError")
             ELSE IF ~file.pil.opens THEN Raise("UnidentifiedImageError")
             ELSE Res(file.pil.size)
        ELSE IF ~file.av.opens THEN Raise("InvalidDataError")
        ELSE IF ~file.av.video THEN Raise("IndexError")
        ELSE Res(file.av.size)

CodecInfo_init_framesSlip(file, file_ext) ==
    LET timing == get_file_fps_frames_duration(file, NoExt)
        codec == get_file_codec(file, NoExt)
        res == get_file_res(file, NoExt)
    IN  IF timing.exc # "none" THEN Raise(timing.exc)
        ELSE IF codec.exc # "none" THEN Raise(codec.exc)
        ELSE IF res.exc # "none" THEN Raise(res.exc)
        ELSE [exc |-> "none",
              file_ext |-> DispatchExt(file, file_ext),
              fps |-> timing.fps, frames |-> timing.frames,
              duration |-> timing.duration,
              codec |-> codec.codec, res |-> res.res,
              is_animated |-> timing.frames > 1]

\* CodecInfo.__init__: the queries of lines 73-77 are made without the
\* extension override
CodecInfo_init(file, file_ext) ==
    LET timing == get_file_fps_frames_duration(file, NoExt)
        codec == get_file_codec(file, NoExt)
        res == get_file_res(file, NoExt)
    IN  IF timing.exc # "none" THEN Raise(timing.exc)
        ELSE IF codec.exc # "none" THEN Raise(codec.exc)
        ELSE IF res.exc # "none" THEN Raise(res.exc)
        ELSE [exc |-> "none",
              file_ext |-> DispatchExt(file, file_ext),
              fps |-> timing.fps, frames |-> timing.frames,
              duration |-> timing.duration,
              codec |-> codec.codec, res |-> res.res,
              is_animated |-> RatLess(RatInt(1), timing.fps)]

----------------------------------------------------------------------------
(* Secondary variant (utils/codec_info.py): the resolution is probed with  *)
(* two tools.  A probed file is a record: wildcard tells whether the name  *)
(* is plain, a frame pattern that resolves to a frame file, or a pattern   *)
(* in an empty directory; ext and gzip_ok describe the file; which_ffmpeg  *)
(* and magick_bin tell which form of each tool is installed; ffprobe and   *)
(* magick are the outcomes of the tools on the file: the call raises, or   *)
(* it reports dims, the sequence of the dimensions it could determine      *)
(* (width and height, the width alone, or nothing).                        *)

\* resolve_wildcard: os.listdir(dir)[0] raises IndexError in an empty
\* directory
resolve_wildcard(file) ==
    IF file.wildcard = "empty_dir" THEN Raise("IndexError") ELSE Returns(file)

\* one try block of lines 62-87: the width and the height the tool
\* reports (streams[0]['width'], streams[0]['height'] of the library, or
\* int() of the two fields of the text the binary prints); any exception
\* sets both to 0
TryProbe(outcome) ==
    IF outcome.raises THEN <<0, 0>>
    ELSE IF Len(outcome.dims) < 2 THEN <<0, 0>>
    ELSE <<outcome.dims[1], outcome.dims[2]>>

Max(a, b) == IF b > a THEN b ELSE a

get_file_res_secondary_magickRaises(file) ==
    LET resolved == resolve_wildcard(file)
    IN  IF resolved.exc # "none" THEN resolved
        ELSE IF file.ext = ".tgs" /\ ~file.gzip_ok THEN Raise("BadGzipFile")
        ELSE IF file.magick.raises THEN Raise("Exception")
        ELSE LET ffprobe == TryProbe(file.ffprobe)
                 magick == TryProbe(file.magick)
             IN  Res(<<Max(ffprobe[1], magick[1]),
                       Max(ffprobe[2], magick[2])>>)

\* get_file_res of the secondary variant, lines 53-89: the width and the
\* height read from the document of a .tgs are not used; both branches of
\* each try block (library or binary) end in the same two assignments
get_file_res_secondary(file) ==
    LET resolved == resolve_wildcard(file)
    IN  IF resolved.exc # "none" THEN resolved
        ELSE IF file.ext = ".tgs" /\ ~file.gzip_ok THEN Raise("BadGzipFile")
        ELSE LET ffprobe == TryProbe(file.ffprobe)
                 magick == TryProbe(file.magick)
             IN  Res(<<Max(ffprobe[1], magick[1]),
                       Max(ffprobe[2], magick[2])>>)

----------------------------------------------------------------------------
(* Inputs                                                                  *)

Fractions ==
    {Fraction(n, d) : n \in 0..MaxNum, d \in 1..MaxDen} \cup {Fraction(-1, 2)}

SeqsUpTo(S, n) == UNION {[1..k -> S] : k \in 1..n}

\* a frame chunk: the marker, 16 bytes of chunk size and frame geometry,
\* then the duration in three little-endian bytes and the byte that holds
\* the reserved bits and the flags
Chunk(c) ==
    Marker \o ZeroBytes(16)
        \o <<c.d % 256, (c.d \div 256) % 256, (c.d \div 65536) % 256, c.flags>>

\* a frame chunk whose geometry bytes spell the marker: the frame's X
\* offset and the first byte of its Y offset, 8 bytes after the chunk starts
NestedChunk(c) ==
    Marker \o ZeroBytes(4) \o Marker \o ZeroBytes(8)
        \o <<c.d % 256, (c.d \div 256) % 256, (c.d \div 65536) % 256, c.flags>>

RECURSIVE Concat(_)
Concat(ss) == IF ss = <<>> THEN <<>> ELSE Head(ss) \o Concat(Tail(ss))

\* the 12 bytes RIFF....WEBP that start a container
Header == <<82, 73, 70, 70, 0, 0, 0, 0, 87, 69, 66, 80>>

WebpContainer(chunks) ==
    Header \o Concat([i \in 1..Len(chunks) |-> Chunk(chunks[i])])

ChunkDurations == {0, 200, 300}
FlagBytes == {0, 3, 7}
ChunkFields == [d : ChunkDurations, flags : FlagBytes]

\* files of up to MaxChunks frame chunks, and files of up to MaxUniform
\* chunks that all carry the same duration
UniformDurations == {40, 100, 65636}

ChunkLists ==
    {<<>>} \cup SeqsUpTo(ChunkFields, MaxChunks) \cup
    {[i \in 1..n |-> [d |-> d, flags |-> 0]] :
        n \in 2..MaxUniform, d \in UniformDurations}

\* duration samples: ints, and floats with up to six decimals (33.333333,
\* 66.666667, 16.666667, 14.285714, 12.345, 100.0)
Samples ==
    {IntSample(n) : n \in {0, 50, 100}} \cup
    {FloatSample(d[1], d[2]) :
        d \in {<<33, 333333>>, <<66, 666667>>, <<16, 666667>>,
                <<14, 285714>>, <<12, 345000>>, <<100, 0>>}}

\* floats str() shows in exponent notation: 1e-07, 1.5e-07, 1.99999e-07,
\* 1e+16, 1.2e+16
SciSamples ==
    {SciSample(d[1], d[2], d[3]) :
        d \in {<<1, 0, -7>>, <<1, 500000, -7>>, <<1, 999990, -7>>,
                <<1, 0, 16>>, <<1, 200000, 16>>}}

\* views of a content the library cannot read
NoPil ==
    [opens |-> FALSE, has_n_frames |-> FALSE, info |-> <<>>, format |-> "",
     is_animated |-> FALSE, size |-> <<0, 0>>]

NoAv ==
    [opens |-> FALSE, video |-> FALSE, duration |-> 0, frames |-> 0,
     pts |-> <<>>, time_base |-> <<1, 1000>>, codec |-> "", size |-> <<0, 0>>]

NoLottie == [valid |-> FALSE, framerate |-> 0, totalframe |-> 0, size |-> <<0, 0>>]

Size == <<512, 512>>

\* what the image library shows of a container built from the chunks cs
WebpPil(cs) ==
    [opens |-> TRUE, has_n_frames |-> TRUE,
     info |-> IF cs = <<>> THEN <<NoDuration>>
              ELSE [i \in 1..Len(cs) |-> Duration(IntSample(cs[i].d))],
     format |-> "WEBP", is_animated |-> Len(cs) > 1, size |-> Size]

WebpFiles ==
    {[isPath |-> TRUE, ext |-> ".webp", bytes |-> WebpContainer(cs),
      pil |-> WebpPil(cs), av |-> NoAv, lottie |-> NoLottie, built |-> cs] :
        cs \in ChunkLists}

\* the content of the file is the whole container of its chunks
Intact(file) == file.bytes = WebpContainer(file.built)

\* the number of bytes missing at the end of a truncated container: part
\* of the duration field of the last chunk, all of it, or more
Cuts == {1, 3, 4, 5, 20}

\* containers of one or two chunks whose last chunk is cut short
TruncatedFiles ==
    {[f EXCEPT !.bytes = SubSeq(f.bytes, 1, Len(f.bytes) - k)] :
        f \in {g \in WebpFiles :
                  /\ Len(g.built) \in 1..2
                  /\ \A i \in 1..Len(g.built) :
                         g.built[i].flags = 0 /\ g.built[i].d # 0},
        k \in Cuts}

\* containers of one or two chunks, one of which holds the marker a second
\* time, less than 24 bytes after its start
NestedFiles ==
    {[f EXCEPT !.bytes =
          Header \o Concat([i \in 1..Len(f.built) |->
                               IF i = k THEN NestedChunk(f.built[i])
                               ELSE Chunk(f.built[i])])] :
        f \in {g \in WebpFiles :
                  /\ Len(g.built) \in 1..2
                  /\ \A i \in 1..Len(g.built) :
                         g.built[i].flags = 0 /\ g.built[i].d # 0},
        k \in 1..2} \ WebpFiles

\* duration entries of im.info: missing, ints, floats (100.0, 12.5)
InfoDurations ==
    {NoDuration} \cup
    {Duration(IntSample(n)) : n \in {0, 100, 200}} \cup
    {Duration(FloatSample(d[1], d[2])) :
        d \in {<<100, 0>>, <<12, 500000>>}}

InfoLists ==
    {<<>>} \cup SeqsUpTo(InfoDurations, MaxChunks) \cup
    {[i \in 1..n |-> Duration(IntSample(d))] :
        n \in 2..MaxUniform, d \in UniformDurations}

PillowFiles ==
    {[isPath |-> TRUE, ext |-> ".gif", bytes |-> <<>>,
      pil |-> [opens |-> TRUE, has_n_frames |-> TRUE, info |-> info,
               format |-> "GIF", is_animated |-> Len(info) > 1,
               size |-> Size],
      av |-> NoAv, lottie |-> NoLottie, built |-> <<>>] :
        info \in InfoLists}
    \cup
    {[isPath |-> TRUE, ext |-> ".png", bytes |-> <<>>,
      pil |-> [opens |-> o, has_n_frames |-> FALSE, info |-> <<>>,
               format |-> IF o THEN "PNG" ELSE "", is_animated |-> FALSE,
               size |-> IF o THEN Size ELSE <<0, 0>>],
      av |-> NoAv, lottie |-> NoLottie, built |-> <<>>] :
        o \in BOOLEAN}

\* n frames at a constant spacing of step ticks: pts 0, step, 2 * step, ...
ConstantPts(n, step) == [i \in 1..n |-> (i - 1) * step]

\* the view the container library has of a raster file of n frames
RasterAv(codec, n) ==
    [opens |-> TRUE, video |-> TRUE, duration |-> 0, frames |-> n,
     pts |-> ConstantPts(n, 100), time_base |-> <<1, 1000>>, codec |-> codec,
     size |-> Size]

TgsFiles ==
    {[isPath |-> TRUE, ext |-> ".tgs", bytes |-> <<>>, pil |-> NoPil,
      av |-> NoAv,
      lottie |-> [valid |-> TRUE, framerate |-> r, totalframe |-> n,
                  size |-> Size],
      built |-> <<>>] :
        r \in {0, 1, 30, 60}, n \in {0, 1, 9, 100}}
    \cup
    {[isPath |-> TRUE, ext |-> ".tgs", bytes |-> <<>>, pil |-> NoPil,
      av |-> NoAv, lottie |-> NoLottie, built |-> <<>>]}

PtsLists ==
    {ConstantPts(n, step) : n \in 0..MaxDecoded, step \in {1, 40}}
    \cup {<<0, 40, 120>>}

AvFiles ==
    {[isPath |-> TRUE, ext |-> ".mp4", bytes |-> <<>>, pil |-> NoPil,
      av |-> [opens |-> TRUE, video |-> TRUE, duration |-> d, frames |-> m,
              pts |-> pts, time_base |-> tb, codec |-> "H264", size |-> Size],
      lottie |-> NoLottie, built |-> <<>>] :
        d \in {0, 400000, 1000500}, m \in {0, 11}, pts \in PtsLists,
        tb \in {<<1, 1000>>, <<1, 25>>}}
    \cup
    {[isPath |-> TRUE, ext |-> ".mp4", bytes |-> <<>>, pil |-> NoPil,
      av |-> [NoAv EXCEPT !.opens = o], lottie |-> NoLottie, built |-> <<>>] :
        o \in BOOLEAN}

\* the files the facade is queried with: containers whose flag bits are
\* clear, raster files (which the container library opens too), vector and
\* video files, each as a Path and as a byte buffer
FacadePaths ==
    {[f EXCEPT !.av = RasterAv("webp", Len(f.pil.info))] :
        f \in {g \in WebpFiles :
                  \A i \in 1..Len(g.built) : g.built[i].flags = 0}}
    \cup {[f EXCEPT !.av = IF f.pil.opens
                           THEN RasterAv(Lower(f.pil.format), Len(f.pil.info))
                           ELSE NoAv] : f \in PillowFiles}
    \cup TgsFiles \cup AvFiles

\* a byte buffer has no suffix; the caller may name its extension
Requests ==
    {[file |-> f, file_ext |-> NoExt] : f \in FacadePaths}
    \cup UNION {{[file |-> [f EXCEPT !.isPath = FALSE, !.ext = NoExt],
                   file_ext |-> e] : e \in {NoExt, f.ext}} :
                    f \in FacadePaths}

\* what a probing tool does on a file
Outcomes ==
    {[raises |-> TRUE, dims |-> <<>>]} \cup
    {[raises |-> FALSE, dims |-> d] :
        d \in {<<>>, <<640>>, <<640, 480>>, <<512, 512>>, <<0, 0>>}}

ProbedFiles ==
    [wildcard : {"plain", "resolved", "empty_dir"},
     ext : {".png", ".tgs"}, gzip_ok : BOOLEAN,
     which_ffmpeg : BOOLEAN, magick_bin : BOOLEAN,
     ffprobe : Outcomes, magick : Outcomes]

----------------------------------------------------------------------------
(* Job pipeline (job.py, utils/callback.py).  Job.start runs six tasks in  *)
(* the main thread; download, compress and export hand work functions to   *)
(* worker processes through work_queue and read their results from         *)
(* results_queue; messages and questions go through cb_queue to callback   *)
(* threads, which answer questions through cb_return.  opt holds the       *)
(* options of the run, main the position of the main thread, processes and *)
(* threads the positions of the workers and of the callback threads,       *)
(* added the work items handed to add_work since the last start_workers    *)
(* with the number of times each was run, done the tasks that returned.    *)
(* A work function (a downloader, StickerConvert.convert, an uploader)     *)
(* returns a result, returns False, returns no url, raises, or asks a      *)
(* question and waits for the answer.                                      *)

\* None on a queue of tags, and on work_queue
None == "None"
NoWork == [id |-> 0, kind |-> None]

Tasks ==
    <<"verify_input", "cleanup", "download", "compress", "export", "report">>

\* the options of a run: opt_input.option is 'local' or names a downloader,
\* opt_output.option is 'local' or names an exporter; error tells whether
\* verify_input finds an error, mismatch whether the compression preset
\* does not match the export option (which takes a compression and an
\* export), files is the number of files to compress, answer is what the
\* ask_bool handler answers (False only in runs with a mismatch, where
\* verify_input asks; the runs with a mismatch are those of a local input).
\* compress starts min(processes, files) workers, so the runs with more
\* processes than files are those with as many
Options ==
    {o \in [input_local : BOOLEAN, output_local : BOOLEAN, error : BOOLEAN,
            mismatch : BOOLEAN, answer : BOOLEAN, no_compress : BOOLEAN,
            processes : 1..MaxProcesses, files : 0..MaxFiles] :
        /\ o.mismatch =>
               (~o.no_compress /\ ~o.output_local /\ ~o.error /\ o.input_local)
        /\ o.error => (o.input_local /\ o.output_local /\ o.no_compress)
        /\ o.processes <= (IF o.files = 0 THEN 1 ELSE o.files)
        /\ o.no_compress => o.files = 0
        /\ ~o.mismatch => o.answer}

\* what the work functions of a task may do
Kinds(task) ==
    CASE task = 3 -> {"result", "False", "raise"}
      [] task = 4 -> {"result", "False", "raise", "ask"}
      [] task = 5 -> {"result", "empty", "raise"}

\* Executor.cb, lines 176-177: the item is put on cb_queue
cb(queue, action) == Append(queue, action)

\* what Executor.cb returns: it has no return statement
cb_returned == None

\* Job.verify_input, lines 250-388, on the callback queue
verify_input(queue) ==
    IF opt.error
    THEN [success |-> FALSE, cb_queue |-> cb(queue, "msg")]
    ELSE IF opt.mismatch
    THEN LET response == cb_returned
         IN  [success |-> response # "False",
              cb_queue |-> cb(queue, "ask_bool")]
    ELSE [success |-> TRUE, cb_queue |-> queue]

\* Job.start, lines 234-243, with the failure tested before the cancel flag
AfterTask_failureFirst(success, queue) ==
    /\ done' = Append(done, [task |-> main.task, success |-> success,
                             cancelled |-> is_cancel_job = 1])
    /\ IF ~success
       THEN /\ main' = [main EXCEPT !.pc = "returned", !.code = 1]
            /\ cb_queue' = cb(cb(queue, "msg"), "bar")
       ELSE IF is_cancel_job = 1
       THEN /\ main' = [main EXCEPT !.pc = "returned", !.code = 2]
            /\ cb_queue' = cb(cb(queue, "msg"), "bar")
       ELSE IF main.task = Len(Tasks)
       THEN /\ main' = [main EXCEPT !.pc = "returned", !.code = 0]
            /\ cb_queue' = cb(queue, "bar")
       ELSE /\ main' = [main EXCEPT !.pc = "task", !.task = @ + 1]
            /\ cb_queue' = queue

\* Job.start, lines 234-245, once a task has returned success with the
\* callback queue it left: the cancel flag, then the failure, then the
\* next task, or the end of the loop and the return of code
AfterTask(success, queue) ==
    /\ done' = Append(done, [task |-> main.task, success |-> success,
                             cancelled |-> is_cancel_job = 1])
    /\ IF is_cancel_job = 1
       THEN /\ main' = [main EXCEPT !.pc = "returned", !.code = 2]
            /\ cb_queue' = cb(cb(queue, "msg"), "bar")
       ELSE IF ~success
       THEN /\ main' = [main EXCEPT !.pc = "returned", !.code = 1]
            /\ cb_queue' = cb(cb(queue, "msg"), "bar")
       ELSE IF main.task = Len(Tasks)
       THEN /\ main' = [main EXCEPT !.pc = "returned", !.code = 0]
            /\ cb_queue' = cb(queue, "bar")
       ELSE /\ main' = [main EXCEPT !.pc = "task", !.task = @ + 1]
            /\ cb_queue' = queue

\* the while loop of lines 128-129 with the sentinel left on the queue
Drained_stale(queue) == queue

\* the while loop of lines 128-129: gets until the queue is empty
Drained(queue) == <<>>

\* Executor.start_workers, lines 126-141: a callback thread and n worker
\* processes are started; self.processes keeps the processes of earlier
\* rounds (line 156 assigns self.process)
start_workers(n) ==
    /\ work_queue' = Drained(work_queue)
    /\ threads' = Append(threads, "get")
    /\ processes' =
           processes \o [i \in 1..n |-> [pc |-> "get", item |-> NoWork]]

\* the position of the first x in the queue, 0 when it holds none
Pos(queue, x) ==
    IF \E i \in 1..Len(queue) : queue[i] = x
    THEN Min({i \in 1..Len(queue) : queue[i] = x})
    ELSE 0

\* the queue after its first n items
Drop(queue, n) == SubSeq(queue, n + 1, Len(queue))

\* the loops over Executor.get_result of lines 465-471 and 529-533: False
\* at the first result that is False, True at the sentinel
AnyFalse(queue) ==
    LET f == Pos(queue, "False")
        n == Pos(queue, None)
    IN  IF f # 0 /\ f < n
        THEN [success |-> FALSE, results_queue |-> Drop(queue, f)]
        ELSE [success |-> TRUE, results_queue |-> Drop(queue, n)]

\* lines 573-583: out_urls holds the urls of the results up to the sentinel
AnyUrl(queue) ==
    LET n == Pos(queue, None)
    IN  [success |-> \E i \in 1..(n - 1) : queue[i] = "result",
         results_queue |-> Drop(queue, n)]

Min2(a, b) == IF a < b THEN a ELSE b

JobVars ==
    <<opt, main, work_queue, results_queue, cb_queue, processes, threads,
      cb_return, is_cancel_job, added, done>>

\* no job
NoJob ==
    /\ opt = [input_local |-> TRUE, output_local |-> TRUE, error |-> FALSE,
              mismatch |-> FALSE, answer |-> TRUE, no_compress |-> TRUE,
              processes |-> 1, files |-> 0]
    /\ main = [pc |-> "idle", task |-> 0, todo |-> 0, code |-> 0]
    /\ work_queue = <<>>
    /\ results_queue = <<>>
    /\ cb_queue = <<>>
    /\ processes = <<>>
    /\ threads = <<>>
    /\ cb_return = [response_event |-> FALSE, response_queue |-> <<>>]
    /\ is_cancel_job = 0
    /\ added = <<>>
    /\ done = <<>>

\* Job.__init__ and Executor.__init__, lines 47-68 and 181-209
JobInit ==
    /\ call = <<"idle", <<>>, <<>>, {}>>
    /\ opt \in Options
    /\ main = [pc |-> "start", task |-> 0, todo |-> 0, code |-> 0]
    /\ work_queue = <<>>
    /\ results_queue = <<>>
    /\ cb_queue = <<>>
    /\ processes = <<>>
    /\ threads = <<>>
    /\ cb_return = [response_event |-> FALSE, response_queue |-> <<>>]
    /\ is_cancel_job = 0
    /\ added = <<>>
    /\ done = <<>>

\* Job.start, lines 211-229
JobStart ==
    /\ main.pc = "start"
    /\ main' = [main EXCEPT !.pc = "task", !.task = 1]
    /\ cb_queue' = cb(cb_queue, "msg")
    /\ UNCHANGED <<call, opt, work_queue, results_queue, processes, threads,
                   cb_return, is_cancel_job, added, done>>

\* a task of Job.start that starts no worker: the bar of line 231, the task
\* (verify_input; Job.cleanup, lines 390-427; report, lines 585-606) and
\* lines 234-245
PlainTask ==
    /\ main.pc = "task"
    /\ main.task \in {1, 2, 6}
    /\ LET queue == cb(cb_queue, "bar")
       IN  CASE main.task = 1 ->
                    AfterTask(verify_input(queue).success,
                              verify_input(queue).cb_queue)
             [] main.task = 2 -> AfterTask(TRUE, cb(cb(queue, "msg"), "msg"))
             [] main.task = 6 -> AfterTask(TRUE, cb(queue, "msg"))
    /\ UNCHANGED <<call, opt, work_queue, results_queue, processes, threads,
                   cb_return, is_cancel_job, added>>

\* download (lines 429-450), compress (lines 473-515) and export (lines
\* 535-559) up to start_workers, or to their return when there is nothing
\* to download, to compress or to export
WorkTask ==
    /\ main.pc = "task"
    /\ main.task \in {3, 4, 5}
    /\ LET queue == cb(cb_queue, "bar")
           skip == CASE main.task = 3 -> opt.input_local
                     [] main.task = 4 -> opt.no_compress
                     [] main.task = 5 -> opt.output_local
           n == IF main.task = 4 THEN Min2(opt.processes, opt.files) ELSE 1
           todo == IF main.task = 4 THEN opt.files ELSE 1
       IN  IF skip
           THEN /\ AfterTask(TRUE, IF main.task = 4
                                   THEN cb(cb(queue, "msg"), "msg")
                                   ELSE cb(queue, "msg"))
                /\ UNCHANGED <<work_queue, processes, threads, added>>
           ELSE /\ cb_queue' = IF main.task = 4
                               THEN cb(cb(queue, "msg"), "bar")
                               ELSE cb(queue, "msg")
                /\ start_workers(n)
                /\ added' = <<>>
                /\ main' = [main EXCEPT !.pc = "add_work", !.todo = todo]
                /\ UNCHANGED done
    /\ UNCHANGED <<call, opt, results_queue, cb_return, is_cancel_job>>

\* Executor.add_work, lines 143-144, called from lines 452-460, 517-524 and
\* 561-569
AddWork ==
    /\ main.pc = "add_work"
    /\ main.todo > 0
    /\ \E kind \in Kinds(main.task) :
           /\ work_queue' =
                  Append(work_queue, [id |-> Len(added) + 1, kind |-> kind])
           /\ added' =
                  Append(added, [task |-> main.task, kind |-> kind, runs |-> 0])
    /\ main' = [main EXCEPT !.todo = @ - 1]
    /\ UNCHANGED <<call, opt, results_queue, cb_queue, processes, threads,
                   cb_return, is_cancel_job, done>>

\* Executor.join_workers, line 147
JoinPut ==
    /\ main.pc = "add_work"
    /\ main.todo = 0
    /\ work_queue' = Append(work_queue, NoWork)
    /\ main' = [main EXCEPT !.pc = "join"]
    /\ UNCHANGED <<call, opt, results_queue, cb_queue, processes, threads,
                   cb_return, is_cancel_job, added, done>>

\* Executor.join_workers, lines 148-156: every process of self.processes
\* has ended
JoinWorkers ==
    /\ main.pc = "join"
    /\ \A p \in 1..Len(processes) :
           processes[p].pc \in {"exited", "terminated"}
    /\ results_queue' = Append(results_queue, None)
    /\ main' = [main EXCEPT !.pc = "get_result"]
    /\ UNCHANGED <<call, opt, work_queue, cb_queue, processes, threads,
                   cb_return, is_cancel_job, added, done>>

\* the end of download (lines 464-471, with Executor.cleanup, lines
\* 169-170), of compress (lines 528-533) and of export (lines 573-583),
\* then lines 234-245
GetResult ==
    /\ main.pc = "get_result"
    /\ Pos(results_queue, None) # 0
    /\ LET r == IF main.task = 5 THEN AnyUrl(results_queue)
                ELSE AnyFalse(results_queue)
       IN  /\ results_queue' = r.results_queue
           /\ AfterTask(r.success,
                        IF main.task = 3 /\ r.success THEN cb(cb_queue, None)
                        ELSE IF main.task = 5 /\ ~r.success
                        THEN cb(cb_queue, "msg")
                        ELSE cb_queue)
    /\ UNCHANGED <<call, opt, work_queue, processes, threads, cb_return,
                   is_cancel_job, added>>

\* Job.cancel, line 248, and Executor.kill_workers, lines 158-167, from the
\* thread of the user interface
KillWorkers ==
    /\ main.pc \notin {"idle", "returned"}
    /\ is_cancel_job = 0
    /\ is_cancel_job' = 1
    /\ work_queue' = <<>>
    /\ processes' =
           [p \in 1..Len(processes) |->
               IF processes[p].pc = "exited" THEN processes[p]
               ELSE [pc |-> "terminated", item |-> NoWork]]
    /\ cb_queue' = cb(cb_queue, None)
    /\ UNCHANGED <<call, opt, main, results_queue, threads, cb_return, added,
                   done>>

\* Executor.worker, line 113: the next item of work_queue, the sentinel
\* ending the loop.  The workers blocked in work_queue.get run the same
\* code on the same queues: the one that gets the item is taken to be the
\* first of them
WorkerGet(p) ==
    /\ processes[p].pc = "get"
    /\ \A q \in 1..(p - 1) : processes[q].pc # "get"
    /\ work_queue # <<>>
    /\ work_queue' = Tail(work_queue)
    /\ processes' =
           [processes EXCEPT ![p] =
               [pc |-> IF Head(work_queue) = NoWork THEN "requeue" ELSE "run",
                item |-> Head(work_queue)]]
    /\ UNCHANGED <<call, opt, main, results_queue, cb_queue, threads,
                   cb_return, is_cancel_job, added, done>>

\* Executor.worker, lines 114-123: the work function is run; its result
\* goes to results_queue, its exception to cb_queue; a work function that
\* asks puts its question on cb_queue and calls cb_return.get_response
WorkerRun(p) ==
    /\ processes[p].pc = "run"
    /\ LET item == processes[p].item
       IN  /\ added' = [added EXCEPT ![item.id].runs = @ + 1]
           /\ processes' =
                  [processes EXCEPT ![p] =
                      [pc |-> IF item.kind = "ask" THEN "wait" ELSE "get",
                       item |-> NoWork]]
           /\ results_queue' =
                  IF item.kind \in {"result", "False", "empty"}
                  THEN Append(results_queue, item.kind)
                  ELSE results_queue
           /\ cb_queue' =
                  CASE item.kind = "raise" -> cb(cb_queue, "traceback")
                    [] item.kind = "ask" -> cb(cb_queue, "ask_bool")
                    [] OTHER -> cb_queue
    /\ UNCHANGED <<call, opt, main, work_queue, threads, cb_return,
                   is_cancel_job, done>>

\* CallbackReturn.get_response, line 27: response_event.wait()
WorkerWait(p) ==
    /\ processes[p].pc = "wait"
    /\ cb_return.response_event
    /\ processes' = [processes EXCEPT ![p].pc = "take"]
    /\ UNCHANGED <<call, opt, main, work_queue, results_queue, cb_queue,
                   threads, cb_return, is_cancel_job, added, done>>

\* CallbackReturn.get_response, line 29: response_queue.get()
WorkerTake(p) ==
    /\ processes[p].pc = "take"
    /\ cb_return.response_queue # <<>>
    /\ cb_return' = [cb_return EXCEPT !.response_queue = Tail(@)]
    /\ processes' = [processes EXCEPT ![p].pc = "clear"]
    /\ UNCHANGED <<call, opt, main, work_queue, results_queue, cb_queue,
                   threads, is_cancel_job, added, done>>

\* CallbackReturn.get_response, lines 31-33: response_event.clear(); the
\* work function then returns its result (Executor.worker, line 116)
WorkerClear(p) ==
    /\ processes[p].pc = "clear"
    /\ cb_return' = [cb_return EXCEPT !.response_event = FALSE]
    /\ results_queue' = Append(results_queue, "result")
    /\ processes' = [processes EXCEPT ![p].pc = "get"]
    /\ UNCHANGED <<call, opt, main, work_queue, cb_queue, threads,
                   is_cancel_job, added, done>>

\* Executor.worker, line 124: the sentinel is put back and the process ends
WorkerExit(p) ==
    /\ processes[p].pc = "requeue"
    /\ work_queue' = Append(work_queue, NoWork)
    /\ processes' = [processes EXCEPT ![p].pc = "exited"]
    /\ UNCHANGED <<call, opt, main, results_queue, cb_queue, threads,
                   cb_return, is_cancel_job, added, done>>

\* the number of messages, bars and tracebacks at the head of the queue
RECURSIVE Plain(_)
Plain(queue) ==
    IF queue = <<>> \/ Head(queue) \in {None, "ask_bool"} THEN 0
    ELSE 1 + Plain(Tail(queue))

\* Executor.cb_thread, lines 75-103: the loop handles the messages, bars
\* and tracebacks at the head of cb_queue (handlers that leave the state
\* alone) and then the next item, if there is one: the sentinel ends the
\* thread; for a question the handler is called and
\* CallbackReturn.set_response puts its answer on response_queue (line 23).
\* The threads blocked in cb_queue.get run the same code: the one that
\* gets the item is taken to be the first of them
ThreadGet(t) ==
    /\ threads[t] = "get"
    /\ \A u \in 1..(t - 1) : threads[u] # "get"
    /\ cb_queue # <<>>
    /\ LET k == Plain(cb_queue)
           next == IF k < Len(cb_queue) THEN cb_queue[k + 1] ELSE "msg"
       IN  /\ cb_queue' = Drop(cb_queue, k + 1)
           /\ threads' =
                  [threads EXCEPT ![t] =
                      CASE next = None -> "done"
                        [] next = "ask_bool" -> "set"
                        [] OTHER -> "get"]
           /\ cb_return' =
                  IF next = "ask_bool"
                  THEN [cb_return EXCEPT
                           !.response_queue = Append(@, opt.answer)]
                  ELSE cb_return
    /\ UNCHANGED <<call, opt, main, work_queue, results_queue, processes,
                   is_cancel_job, added, done>>

\* CallbackReturn.set_response, line 24: response_event.set()
ThreadSet(t) ==
    /\ threads[t] = "set"
    /\ cb_return' = [cb_return EXCEPT !.response_event = TRUE]
    /\ threads' = [threads EXCEPT ![t] = "get"]
    /\ UNCHANGED <<call, opt, main, work_queue, results_queue, cb_queue,
                   processes, is_cancel_job, added, done>>

\* the steps of the main thread, of the workers and of the callback threads
Progress ==
    \/ JobStart
    \/ PlainTask
    \/ WorkTask
    \/ AddWork
    \/ JoinPut
    \/ JoinWorkers
    \/ GetResult
    \/ \E p \in 1..Len(processes) :
           \/ WorkerGet(p)
           \/ WorkerRun(p)
           \/ WorkerWait(p)
           \/ WorkerTake(p)
           \/ WorkerClear(p)
           \/ WorkerExit(p)
    \/ \E t \in 1..Len(threads) :
           \/ ThreadGet(t)
           \/ ThreadSet(t)

JobNext ==
    \/ Progress
    \/ KillWorkers

JobSpec == JobInit /\ [][JobNext]_vars

----------------------------------------------------------------------------
(* Actions                                                                 *)

Init ==
    /\ call = <<"idle", <<>>, <<>>, {}>>
    /\ NoJob

FractionsGcd ==
    /\ op = "idle"
    /\ UNCHANGED JobVars
    /\ \E fs \in SeqsUpTo(Fractions, MaxLen) :
           call' = <<"fractions_gcd",
                     fs,
                     fractions_gcd(fs),
                     held>>

DurationsGcd ==
    /\ op = "idle"
    /\ UNCHANGED JobVars
    /\ \E ds \in SeqsUpTo(Samples, MaxLen) :
           call' = <<"durations_gcd",
                     ds,
                     durations_gcd(ds),
                     held>>

LikelyInt ==
    /\ op = "idle"
    /\ UNCHANGED JobVars
    /\ \E value \in Samples \cup SciSamples \cup
                      {SampleTimes(i, x) : i \in Samples, x \in {3, 7}} :
           call' = <<"likely_int",
                     value,
                     likely_int_call(value),
                     held>>

QueryWebp ==
    /\ op = "idle"
    /\ UNCHANGED JobVars
    /\ \E file \in WebpFiles \cup TruncatedFiles \cup NestedFiles :
           call' = <<"webp",
                     file,
                     _get_file_fps_frames_duration_webp(file),
                     WebpHeld(file)>>

QueryPillow ==
    /\ op = "idle"
    /\ UNCHANGED JobVars
    /\ \E file \in PillowFiles, frames_only \in BOOLEAN :
           call' = <<IF frames_only THEN "pillow_frames_only" ELSE "pillow",
                     file,
                     _get_file_fps_frames_duration_pillow(file, frames_only),
                     held>>

QueryAv ==
    /\ op = "idle"
    /\ UNCHANGED JobVars
    /\ \E file \in AvFiles, frames_to_iterate \in {NoBound, 2, 10},
          frames_only \in BOOLEAN :
           call' = <<"av",
                     [file |-> file, frames_to_iterate |-> frames_to_iterate,
                        frames_only |-> frames_only],
                     _get_file_frames_duration_av(file, frames_to_iterate,
                         frames_only),
                     held>>

QueryTiming ==
    /\ op = "idle"
    /\ UNCHANGED JobVars
    /\ \E r \in Requests :
           call' = <<"get_file_fps_frames_duration",
                     r,
                     get_file_fps_frames_duration(r.file, r.file_ext),
                     Held(r.file, r.file_ext)>>

Construct ==
    /\ op = "idle"
    /\ UNCHANGED JobVars
    /\ \E r \in Requests :
           call' = <<"CodecInfo",
                     r,
                     CodecInfo_init(r.file, r.file_ext),
                     Held(r.file, NoExt)>>

QueryFrames ==
    /\ op = "idle"
    /\ UNCHANGED JobVars
    /\ \E r \in Requests, check_anim \in BOOLEAN :
           call' = <<"get_file_frames",
                     [file |-> r.file, file_ext |-> r.file_ext,
                        check_anim |-> check_anim],
                     get_file_frames(r.file, r.file_ext, check_anim),
                     held>>

IsAnim ==
    /\ op = "idle"
    /\ UNCHANGED JobVars
    /\ \E r \in {q \in Requests : q.file_ext = NoExt} :
           call' = <<"is_anim",
                     [file |-> r.file],
                     is_anim(r.file),
                     held>>

QueryFps ==
    /\ op = "idle"
    /\ UNCHANGED JobVars
    /\ \E r \in Requests :
           call' = <<"get_file_fps",
                     r,
                     get_file_fps(r.file, r.file_ext),
                     held>>

\* the same file handed to each of the queries: which strategy each takes
Dispatch ==
    /\ op = "idle"
    /\ UNCHANGED JobVars
    /\ \E r \in Requests :
           call' = <<"dispatch",
                     r,
                     [query \in Queries |->
                         SelectedStrategy(query,
                                          DispatchExt(r.file, r.file_ext))],
                     held>>

QueryResSecondary ==
    /\ op = "idle"
    /\ UNCHANGED JobVars
    /\ \E file \in ProbedFiles :
           call' = <<"get_file_res_secondary",
                     file,
                     get_file_res_secondary(file),
                     held>>

Next ==
    \/ FractionsGcd
    \/ DurationsGcd
    \/ LikelyInt
    \/ QueryWebp
    \/ QueryPillow
    \/ QueryAv
    \/ QueryTiming
    \/ Construct
    \/ QueryFrames
    \/ IsAnim
    \/ QueryFps
    \/ Dispatch
    \/ QueryResSecondary

Spec == Init /\ [][Next]_vars

----------------------------------------------------------------------------
(* Properties                                                              *)

\* the sequences that hold the elements of s in another order
Reorderings(s) ==
    {[i \in 1..Len(s) |-> s[p[i]]] :
        p \in {q \in [1..Len(s) -> 1..Len(s)] :
                  {q[i] : i \in 1..Len(s)} = 1..Len(s)}}

\* C1: folding fraction_gcd over a non-empty list of exact rationals gives
\* the same tick for every permutation of the list; fraction_gcd is
\* commutative on the first two and associative on the first three
\* elements of the list (every pair and triple heads some list).
C1_PermutationInvariant ==
    op = "fractions_gcd" =>
        /\ \A p \in Reorderings(arg) : fractions_gcd(p) = ret
        /\ Len(arg) >= 2 =>
               fraction_gcd(arg[1], arg[2]) = fraction_gcd(arg[2], arg[1])
        /\ Len(arg) >= 3 =>
               fraction_gcd(fraction_gcd(arg[1], arg[2]), arg[3])
                   = fraction_gcd(arg[1], fraction_gcd(arg[2], arg[3]))

C1_Witness ==
    /\ op = "fractions_gcd"
    /\ Len(arg) = 3
    /\ arg[1] # arg[2] /\ arg[2] # arg[3] /\ arg[1] # arg[3]
    /\ denominator(ret) > 1
    /\ numerator(ret) > 1

\* the first denominator of Denominators, from position k on, that makes
\* every sample pass likely_int; 0 if there is none
RECURSIVE FirstDenominator(_, _)
FirstDenominator(durations, k) ==
    IF k > Len(Denominators) THEN 0
    ELSE IF \A i \in 1..Len(durations) :
                likely_int(SampleTimes(durations[i], Denominators[k]))
         THEN Denominators[k]
         ELSE FirstDenominator(durations, k + 1)

\* C3: when a float is among the samples and not every sample passes
\* likely_int, durations_gcd returns gcd(round(sample * x)) / x for the
\* first denominator x of 3, 6, 7, 9, 11, 13 that makes every sample * x
\* pass likely_int (33.333333 and 66.666667 give 100/3).
C3_DenominatorProbe ==
    (/\ op = "durations_gcd"
     /\ \E i \in 1..Len(arg) : arg[i].isFloat
     /\ \E i \in 1..Len(arg) : ~likely_int(arg[i])
     /\ FirstDenominator(arg, 1) # 0)
    => LET x == FirstDenominator(arg, 1)
       IN  ret = Fraction(gcdAll([i \in 1..Len(arg) |->
                                    RoundSample(SampleTimes(arg[i], x))]), x)

\* C4: n >= 2 frame chunks that all carry the same non-zero duration d give
\* fps = 1000/d, frames = n, duration = n * d.
C4_UniformChunks ==
    (/\ op = "webp"
     /\ Intact(arg)
     /\ Len(arg.built) >= 2
     /\ arg.built[1].d # 0
     /\ \A i \in 1..Len(arg.built) : arg.built[i].d = arg.built[1].d)
    => /\ ret.exc = "none"
       /\ ret.fps = Fraction(1000, arg.built[1].d)
       /\ ret.frames = Len(arg.built)
       /\ ret.duration = RatInt(Len(arg.built) * arg.built[1].d)

C4_Witness ==
    /\ op = "webp"
    /\ Len(arg.built) = 5
    /\ \A i \in 1..5 : arg.built[i].d = 100
    /\ ret = Timing(RatInt(10), 5, RatInt(500))

\* the per-frame durations of the raster input of a query, as samples
FrameDurations ==
    IF op = "webp"
    THEN [i \in 1..Len(arg.built) |-> IntSample(arg.built[i].d)]
    ELSE [i \in 1..Len(arg.pil.info) |-> InfoDuration(arg.pil.info[i])]

\* two or more frames, every duration a positive whole number of ms
WholeDurations ==
    /\ op \in {"webp", "pillow"}
    /\ op = "webp" => Intact(arg)
    /\ Len(FrameDurations) >= 2
    /\ \A i \in 1..Len(FrameDurations) :
           FrameDurations[i].f = 0 /\ FrameDurations[i].w > 0

GreatestTick == gcdAll([i \in 1..Len(FrameDurations) |-> FrameDurations[i].w])

\* C2 as stated: for every integer tick t that divides all the per-frame
\* durations of a sequence of two or more, both raster strategies report
\* fps = 1000/t.
C2_AnyCommonTick ==
    WholeDurations =>
        \A t \in 1..GreatestTick :
            GreatestTick % t = 0 =>
                ret.exc = "none" /\ ret.fps = Fraction(1000, t)

\* C2 amended: for two or more per-frame durations that are positive whole
\* numbers of ms, both raster strategies report fps = 1000/g, g the
\* greatest common divisor of the durations, whether there is one distinct
\* duration or several.
C2_GreatestTick ==
    WholeDurations =>
        ret.exc = "none" /\ ret.fps = Fraction(1000, GreatestTick)

C2_Witness ==
    /\ WholeDurations
    /\ op = "pillow"
    /\ \E i, j \in 1..Len(FrameDurations) :
           FrameDurations[i].w = 200 /\ FrameDurations[j].w = 100
    /\ ret.fps = RatInt(10)

\* C5: changing the low 2 bits of the 4th byte of any frame's duration
\* field leaves the timing record of the container unchanged.
C5_FlagBitsIgnored ==
    (op = "webp" /\ Intact(arg)) =>
        \A i \in 1..Len(arg.built), bits \in 0..3 :
            LET flags == arg.built[i].flags
                other == [arg.built EXCEPT
                             ![i].flags = flags - (flags % 4) + bits]
            IN  _get_file_fps_frames_duration_webp(
                    [arg EXCEPT !.bytes = WebpContainer(other),
                                !.built = other]) = ret

C5_Witness ==
    /\ op = "webp"
    /\ Len(arg.built) = 2
    /\ arg.built[1].flags = 7 /\ arg.built[2].flags = 0
    /\ arg.built[1].d = 200 /\ arg.built[2].d = 300
    /\ ret = Timing(RatInt(10), 2, RatInt(500))

\* C9: timing extraction of a raster input never fails on a division, and
\* returns fps >= 0, frames >= 0, duration >= 0, with fps = 0 when the
\* total duration is zero.
C9_NoDivisionFailure ==
    op \in {"webp", "pillow"} =>
        /\ ret.exc # "ZeroDivisionError"
        /\ ret.exc = "none" =>
               /\ RatLeq(RatInt(0), ret.fps)
               /\ ret.frames >= 0
               /\ RatLeq(RatInt(0), ret.duration)
               /\ (ret.duration = RatInt(0) => ret.fps = RatInt(0))

\* C6: a generic animated-raster input whose decoder reports exactly one
\* frame yields fps = 0, frames = 1, duration = 0, whatever its duration
\* entry is and also when it is missing.
C6_SingleFrameStatic ==
    (/\ op = "pillow"
     /\ arg.pil.opens /\ arg.pil.has_n_frames
     /\ Len(arg.pil.info) = 1)
    => ret = Timing(RatInt(0), 1, RatInt(0))

\* C7: with zero duration metadata and a full decode, the decode-fallback
\* strategy reports as many frames as were decoded, for every N >= 1; 11
\* frames 40 ms apart give frames = 11 and a duration of 400 ms up to
\* rounding.
C7_FrameCountIsDecoded ==
    (/\ op = "av"
     /\ arg.file.av.opens /\ arg.file.av.video
     /\ arg.file.av.duration = 0
     /\ arg.frames_to_iterate = NoBound
     /\ ~arg.frames_only
     /\ Len(arg.file.av.pts) >= 1)
    => /\ ret.exc = "none"
       /\ ret.frames = Len(arg.file.av.pts)
       /\ (arg.file.av.pts = ConstantPts(11, 40)
            /\ arg.file.av.time_base = <<1, 1000>>)
           => ret.duration \in 399..401

\* C8: the record the constructor builds has is_animated = (fps > 1), fps
\* being the fps field of the record, whatever the strategy.
C8_AnimatedIffFps ==
    (op = "CodecInfo" /\ ret.exc = "none")
    => (ret.is_animated <=> RatLess(RatInt(1), ret.fps))

C8_Witness ==
    /\ op = "CodecInfo"
    /\ ret.exc = "none"
    /\ ret.file_ext = ".gif"
    /\ ret.frames = 1
    /\ ret.is_animated

\* |frames - round(fps * duration / 1000)| <= 1 for a timing record
FramesMatchRate(t) ==
    LET apparent == rounding(RatDiv(RatMul(t.fps, t.duration), RatInt(1000)))
    IN  Abs(t.frames - apparent) <= 1

PositiveTiming ==
    /\ op = "get_file_fps_frames_duration"
    /\ ret.exc = "none"
    /\ RatLess(RatInt(0), ret.fps)
    /\ RatLess(RatInt(0), ret.duration)

\* C10 as stated: every timing record with fps > 0 and duration > 0 has
\* |frames - round(fps * duration / 1000)| <= 1, for every strategy and also
\* for per-frame durations that are not uniform.
C10_FramesMatchRate ==
    PositiveTiming => FramesMatchRate(ret)

\* the strategy the query of the request r dispatches to
Strategy(r) ==
    LET ext == DispatchExt(r.file, r.file_ext)
    IN  IF ext = ".tgs" THEN "vector"
        ELSE IF ext = ".webp" THEN "chunked"
        ELSE IF ext \in {".gif", ".apng", ".png"} THEN "generic"
        ELSE "decode"

\* the distinct non-zero per-frame durations of the raster file of r
DistinctDurations(r) ==
    IF Strategy(r) = "chunked"
    THEN {r.file.built[i].d : i \in 1..Len(r.file.built)} \ {0}
    ELSE {<<InfoDuration(r.file.pil.info[i]).w,
            InfoDuration(r.file.pil.info[i]).f>> :
              i \in 1..Len(r.file.pil.info)} \ {<<0, 0>>}

\* C10 amended: a timing record with fps > 0 and duration > 0 has
\* |frames - round(fps * duration / 1000)| <= 1 when it comes from the
\* decode-fallback strategy, from the vector strategy with a frame rate of
\* at most 1000, or from a raster strategy on frames with a single distinct
\* non-zero duration.
C10_FramesMatchRateUniform ==
    (/\ PositiveTiming
     /\ \/ Strategy(arg) = "decode"
        \/ Strategy(arg) = "vector" /\ arg.file.lottie.framerate <= 1000
        \/ /\ Strategy(arg) \in {"chunked", "generic"}
           /\ Cardinality(DistinctDurations(arg)) = 1)
    => FramesMatchRate(ret)

C10_Witness ==
    /\ PositiveTiming
    /\ Strategy(arg) = "chunked"
    /\ Len(arg.file.built) = 3
    /\ DistinctDurations(arg) = {200}
    /\ ret.frames = 3


\* the first five decimal digits of a float sample, as the number they
\* spell: those of the value, whatever notation str() shows it in
\* (a float below 0.000001 has five zeros there, and so has a float from
\* 10^16 on, which is whole)
FirstFiveDecimals(value) == IF value.e = 0 THEN value.f \div 10 ELSE 0

\* C16: likely_int returns a boolean for every int and every finite float:
\* True for an int and for a float whose first five decimal digits are
\* 00000 or 99999, False for every other float (12.345).
C16_LikelyInt ==
    op = "likely_int" =>
        /\ ret.exc = "none"
        /\ ret.value = (~arg.isFloat \/ FirstFiveDecimals(arg) \in {0, 99999})
        /\ (arg = FloatSample(12, 345000) => ret.value = FALSE)



\* C11: for every file, is_anim(file) is True exactly when the record
\* CodecInfo(file) has is_animated, that is when the fps derived for the
\* file is greater than 1.
C11_IsAnimMatchesRecord ==
    op = "is_anim" =>
        LET record == CodecInfo_init(arg.file, NoExt)
        IN  record.exc = "none" =>
                ret.exc = "none" /\ ret.value = record.is_animated

\* the number of frames the media of a frame-count query holds: the frames
\* the strategy of the dispatch can read from it
MediaFrames(file, file_ext) ==
    LET ext == DispatchExt(file, file_ext)
    IN  IF ext = ".tgs" THEN file.lottie.totalframe
        ELSE IF ext \in {".gif", ".webp", ".png", ".apng"}
        THEN IF file.pil.has_n_frames THEN Len(file.pil.info) ELSE 1
        ELSE Len(file.av.pts)

\* C15: get_file_frames(file, check_anim=True) returns a value > 1 exactly
\* when the media holds more than one frame; on the decode-fallback path
\* this holds whenever the frame count of the metadata is unreliable
\* (stream.frames <= 1) or agrees with the frames decoded, two decodable
\* frames included.
C15_CheckAnimFrames ==
    (/\ op = "get_file_frames"
     /\ arg.check_anim
     /\ ret.exc = "none"
     /\ \/ arg.file.av.frames <= 1
        \/ arg.file.av.frames = Len(arg.file.av.pts))
    => (ret.value > 1 <=> MediaFrames(arg.file, arg.file_ext) > 1)



\* C12: a record built with an extension override e takes its timing, its
\* codec and its resolution from the strategies the dispatch assigns to e,
\* and its file_ext is e.
C12_OverrideDispatch ==
    (op = "CodecInfo" /\ arg.file_ext # NoExt)
    => LET timing == get_file_fps_frames_duration(arg.file, arg.file_ext)
           codec == get_file_codec(arg.file, arg.file_ext)
           res == get_file_res(arg.file, arg.file_ext)
       IN  (timing.exc = "none" /\ codec.exc = "none" /\ res.exc = "none")
           => /\ ret.exc = "none"
              /\ ret.file_ext = arg.file_ext
              /\ ret.fps = timing.fps
              /\ ret.frames = timing.frames
              /\ ret.duration = timing.duration
              /\ ret.codec = codec.codec
              /\ ret.res = res.res

\* the container of the file cannot be opened or holds no video stream
Undecodable(file) == ~file.av.opens \/ ~file.av.video

\* C13: when the container cannot be opened or holds no decodable video
\* stream, the decode-fallback strategy returns (0, 0) and the facade
\* returns fps = 0 with it; no exception leaves the facade.
C13_EmptyResult ==
    /\ (op = "av" /\ Undecodable(arg.file)) => ret = FramesDuration(0, 0)
    /\ (/\ op = "get_file_fps_frames_duration"
        /\ Strategy(arg) = "decode"
        /\ Undecodable(arg.file))
       => ret = Timing(RatInt(0), 0, RatInt(0))



\* C14: on a file that can be opened and mapped the chunked-raster strategy
\* never raises, and a marker whose chunk is cut short contributes no
\* frame: the result is that of the container without the chunk, which is
\* fps = 0, frames = 1, duration = 0 when no whole chunk is left.
C14_TruncatedChunkSkipped ==
    (op = "webp" /\ arg.isPath /\ arg.bytes # <<>>)
    => /\ ret.exc = "none"
       /\ ~Intact(arg) =>
              LET whole == SubSeq(arg.built, 1, Len(arg.built) - 1)
              IN  /\ ret = _get_file_fps_frames_duration_webp(
                               [arg EXCEPT !.bytes = WebpContainer(whole)])
                  /\ whole = <<>> => ret = Timing(RatInt(0), 1, RatInt(0))

RECURSIVE FieldTotal(_)
FieldTotal(chunks) ==
    IF chunks = <<>> THEN 0
    ELSE Head(chunks).d + 16777216 * MaskFlags(Head(chunks).flags)
             + FieldTotal(Tail(chunks))

\* C19: the duration decoded from a field (b0, b1, b2, b3) is
\* b0 + 256 * b1 + 65536 * b2 + 16777216 * (b3 AND 0xFC): the total
\* duration of a container of two or more chunks is the sum of these.
C19_TopBitsKept ==
    (op = "webp" /\ Intact(arg) /\ Len(arg.built) >= 2 /\ ret.exc = "none")
    => ret.duration = RatInt(FieldTotal(arg.built))



\* the tool determined a width and a height
Succeeds(outcome) == ~outcome.raises /\ Len(outcome.dims) = 2

\* C18: get_file_res of the secondary variant returns the larger width and
\* the larger height of the two tools, a tool that fails counting as
\* (0, 0): the resolution of the one tool that succeeds, (0, 0) when both
\* fail, and the failure of a tool never leaves the query.
C18_MaxOfProbes ==
    (/\ op = "get_file_res_secondary"
     /\ arg.wildcard # "empty_dir"
     /\ arg.ext = ".tgs" => arg.gzip_ok)
    => /\ ret.exc = "none"
       /\ (Succeeds(arg.ffprobe) /\ Succeeds(arg.magick)) =>
              /\ ret.res[1] >= arg.ffprobe.dims[1]
              /\ ret.res[1] >= arg.magick.dims[1]
              /\ ret.res[1] \in {arg.ffprobe.dims[1], arg.magick.dims[1]}
              /\ ret.res[2] >= arg.ffprobe.dims[2]
              /\ ret.res[2] >= arg.magick.dims[2]
              /\ ret.res[2] \in {arg.ffprobe.dims[2], arg.magick.dims[2]}
       /\ (Succeeds(arg.ffprobe) /\ ~Succeeds(arg.magick)) =>
              ret.res = arg.ffprobe.dims
       /\ (~Succeeds(arg.ffprobe) /\ Succeeds(arg.magick)) =>
              ret.res = arg.magick.dims
       /\ (~Succeeds(arg.ffprobe) /\ ~Succeeds(arg.magick)) =>
              ret.res = <<0, 0>>

C18_Witness ==
    /\ op = "get_file_res_secondary"
    /\ arg.ffprobe.raises
    /\ arg.magick.dims = <<640, 480>>
    /\ ret = Res(<<640, 480>>)

\* C20: with zero duration metadata and a full decode of N frames, the
\* decode-fallback strategy reports duration 0 when N <= 1 and otherwise
\* the half-up rounding of N * (last_pts * time_base_ms) / (N - 1).
C20_DurationFromPts ==
    (/\ op = "av"
     /\ arg.file.av.opens /\ arg.file.av.video
     /\ arg.file.av.duration = 0
     /\ arg.frames_to_iterate = NoBound
     /\ ~(arg.frames_only /\ arg.file.av.frames > 1))
    => LET frame_count == Len(arg.file.av.pts)
           time_base_ms ==
               RatMul(Fraction(arg.file.av.time_base[1],
                               arg.file.av.time_base[2]), RatInt(1000))
       IN  /\ ret.exc = "none"
           /\ ret.duration =
                  IF frame_count <= 1 THEN 0
                  ELSE rounding(RatDiv(
                           RatMul(RatInt(frame_count),
                                  RatMul(RatInt(arg.file.av.pts[frame_count]),
                                         time_base_ms)),
                           RatInt(frame_count - 1)))


\* the positions of the file at which the 4-byte marker occurs
Occurrences(mm) ==
    {i \in 0..(Len(mm) - Len(Marker)) :
        SubSeq(mm, i + 1, i + Len(Marker)) = Marker}

\* the sum of the durations spelled 20 bytes after the positions in S
RECURSIVE DurationsAt(_, _)
DurationsAt(mm, S) ==
    IF S = {} THEN 0
    ELSE LET i == Min(S)
         IN  (IF i + 20 < Len(mm) THEN DecodeDuration(Read4(mm, i + 20)) ELSE 0)
                 + DurationsAt(mm, S \ {i})

\* C21: when the marker scan ends, frames is the number of occurrences of
\* the marker in the file and the total duration is the sum of the
\* durations decoded at those occurrences, also when a marker occurs less
\* than 24 bytes after the start of the previous one.
C21_EveryMarkerCounted ==
    (/\ op = "webp"
     /\ ret.exc = "none"
     /\ Cardinality(Occurrences(arg.bytes)) >= 2)
    => /\ ret.frames = Cardinality(Occurrences(arg.bytes))
       /\ ret.duration =
              RatInt(DurationsAt(arg.bytes, Occurrences(arg.bytes)))

\* C22: every query takes the same strategy for an extension: '.tgs' the
\* vector animation, '.webp' the chunked raster, '.gif', '.png' and '.apng'
\* the generic raster, any other or missing extension the decode fallback.
C22_SharedDispatch ==
    op = "dispatch" => \A query \in Queries : ret[query] = Strategy(arg)

\* C23: the fps-only query returns the fps of the full query, on the
\* decode-fallback path for streams with duration metadata, of more than 10
\* frames too.
C23_FpsMatchesFull ==
    (/\ op = "get_file_fps"
     /\ Strategy(arg) = "decode" =>
            (arg.file.av.opens => arg.file.av.duration # 0))
    => LET full == get_file_fps_frames_duration(arg.file, arg.file_ext)
       IN  IF full.exc # "none" THEN ret = full
           ELSE ret = Returns(full.fps)

\* C24: in every round start_workers, add_work*, join_workers, no work item
\* is run twice and the sentinel is not on work_queue before join_workers
\* puts it; when join_workers has returned (and the job was not cancelled),
\* every item added in the round has been run once, every worker process
\* has exited, and the one sentinel is back on work_queue.
C24_RoundsRunOnce ==
    /\ \A i \in 1..Len(added) : added[i].runs <= 1
    /\ (main.pc = "add_work" /\ is_cancel_job = 0) =>
           \A i \in 1..Len(work_queue) : work_queue[i] # NoWork
    /\ (main.pc = "get_result" /\ is_cancel_job = 0) =>
           /\ \A i \in 1..Len(added) : added[i].runs = 1
           /\ \A p \in 1..Len(processes) : processes[p].pc = "exited"
           /\ work_queue = <<NoWork>>

\* join_workers has returned from the round of compress, which followed the
\* round of download and ran two items on two workers
C24_Witness ==
    /\ main.pc = "get_result"
    /\ main.task = 4
    /\ is_cancel_job = 0
    /\ Len(added) = 2
    /\ Len(processes) = 3

\* C25: CallbackReturn loses no response: a worker blocked in get_response
\* on the event while a response is on response_queue does not stay
\* blocked, some thread or process can still take a step.
C25_NoLostResponse ==
    \A p \in 1..Len(processes) :
        (/\ processes[p].pc = "wait"
         /\ ~cb_return.response_event
         /\ cb_return.response_queue # <<>>)
        => ENABLED Progress

\* C26 as stated: Job.start returns 0 exactly when all six stages ran and
\* succeeded.
C26_ZeroIffAllSucceeded ==
    main.pc = "returned" =>
        (main.code = 0 <=>
            (Len(done) = Len(Tasks) /\ \A i \in 1..Len(done) : done[i].success))

\* C26: the stages run in the order of Tasks, each once; a stage starts
\* only if every earlier stage returned success with the cancel flag clear
\* when it finished; Job.start returns 2 exactly when the flag was set when
\* the last stage run finished (whether or not that stage succeeded), 1
\* exactly when the flag was clear and that stage failed, and 0 exactly
\* when all six stages ran and succeeded with the flag clear.
C26_StagesInOrder ==
    /\ \A i \in 1..Len(done) : done[i].task = i
    /\ \A i \in 1..(Len(done) - 1) : done[i].success /\ ~done[i].cancelled
    /\ main.pc = "returned" =>
           /\ Len(done) \in 1..Len(Tasks)
           /\ LET last == done[Len(done)]
              IN  /\ main.code \in {0, 1, 2}
                  /\ main.code = 2 <=> last.cancelled
                  /\ main.code = 1 <=> (~last.cancelled /\ ~last.success)
                  /\ main.code = 0 <=>
                         /\ Len(done) = Len(Tasks)
                         /\ last.success
                         /\ ~last.cancelled

\* Job.start has returned 2 after a stage that failed with the flag set
C26_Witness ==
    /\ main.pc = "returned"
    /\ main.code = 2
    /\ ~done[Len(done)].success

\* C27: when a work function of download or of compress raised in a worker,
\* the stage returns False (in a run that is not cancelled).
C27_RaiseFailsStage ==
    \A i \in 1..Len(done) :
        (/\ done[i].task \in {3, 4}
         /\ ~done[i].cancelled
         /\ \E k \in 1..Len(added) :
                /\ added[k].task = done[i].task
                /\ added[k].kind = "raise"
                /\ added[k].runs = 1)
        => ~done[i].success

\* C28: every item put on cb_queue through Executor.cb is dispatched by a
\* callback thread: once Job.start has returned (in a run that is not
\* cancelled) and no thread or process can take a step, cb_queue holds no
\* message, bar or question.
C28_EveryItemDispatched ==
    (main.pc = "returned" /\ is_cancel_job = 0 /\ ~ENABLED Progress) =>
        \A i \in 1..Len(cb_queue) : cb_queue[i] = None

\* the number of sentinels on the queue
RECURSIVE Sentinels(_)
Sentinels(queue) ==
    IF queue = <<>> THEN 0
    ELSE (IF Head(queue) = None THEN 1 ELSE 0) + Sentinels(Tail(queue))

\* C29: when Job.start has returned, every callback thread that was started
\* has ended or has its sentinel on cb_queue.
C29_SentinelPerThread ==
    main.pc = "returned" =>
        Cardinality({t \in 1..Len(threads) : threads[t] # "done"})
            <= Sentinels(cb_queue)

\* C30: when verify_input asks whether to continue with a compression
\* preset that does not match the export option, and the ask_bool handler
\* answers False, verify_input returns False and Job.start stops with code
\* 1 before any other stage (in a run that is not cancelled).
C30_RefusalStopsJob ==
    (/\ opt.mismatch
     /\ ~opt.answer
     /\ Len(done) >= 1
     /\ ~done[1].cancelled)
    => /\ ~done[1].success
       /\ main.pc = "returned"
       /\ main.code = 1

=============================================================================
